---- MODULE Spec2Model ----
(***************************************************************************)
(* Plugin discovery of yapsy-sidecarless (plugins.py): the single-module   *)
(* Analyzer and Locator.locatePlugins, over a small file system.           *)
(*                                                                         *)
(* A path is a sequence of tokens: directory names, a base name and, last, *)
(* the suffix, so "root/pluginA.py" is <<"root", "pluginA", ".py">>.       *)
(* str.endswith, the [:-3] slice and os.path.join act on the tokens.       *)
(***************************************************************************)
EXTENDS Integers, Sequences, FiniteSets, TLC

VARIABLES
    fs,                  \* the file system: content of every file
    plugins_places,      \* Locator.plugins_places
    recursive,           \* Locator.recursive
    analyzers,           \* Locator._analyzers
    discovered_plugins,  \* Locator._discovered_plugins
    pc,                  \* "idle" | "walk": position inside locatePlugins
    todo,                \* (root, filename) pairs the walk has still to visit
    candidates,          \* local _candidates
    discovered,          \* local _discovered
    claimed,             \* history: per candidate, the paths registered with it
    log,                 \* history: analyzer calls of the current pass
    returned             \* history: outcome of every finished pass

vars == <<fs, plugins_places, recursive, analyzers, discovered_plugins, pc,
          todo, candidates, discovered, claimed, log, returned>>

(***************************************************************************)
(* Bounds.                                                                 *)
(***************************************************************************)
MaxPlaces == 2
MaxAnalyzers == 2
MaxPasses == 2

(***************************************************************************)
(* Strings and paths.                                                      *)
(***************************************************************************)
endswith(path, suffix) == Len(path) > 0 /\ path[Len(path)] = suffix

\* path[:-3] of a path that ends in ".py"
StripSuffix(path) == SubSeq(path, 1, Len(path) - 1)

\* path + ".py"
PlusPy(path) == Append(path, ".py")

join(dirpath, filename) == dirpath \o filename

RECURSIVE SeqRange(_)
SeqRange(s) == IF s = <<>> THEN {} ELSE {Head(s)} \cup SeqRange(Tail(s))

RECURSIVE Flatten(_)
Flatten(ss) == IF ss = <<>> THEN <<>> ELSE Head(ss) \o Flatten(Tail(ss))

EmptyDict == [p \in {} |-> <<>>]

(***************************************************************************)
(* The file system under the search places.                                *)
(***************************************************************************)
Root == <<"root">>
Pkg == <<"root", "pkg">>
Missing == <<"missing">>

PluginA == <<"root", "pluginA", ".py">>
Readme == <<"root", "readme", ".txt">>
Sidecar == <<"root", "pkg", ".info">>
PkgInit == <<"root", "pkg", "__init__", ".py">>
PkgHelper == <<"root", "pkg", "helper", ".py">>

Dirs == {Root, Pkg}

\* directory entries in the order the OS lists them
Entries == <<
    [dir |-> Root, name |-> <<"pluginA", ".py">>],
    [dir |-> Root, name |-> <<"readme", ".txt">>],
    [dir |-> Root, name |-> <<"pkg", ".info">>],
    [dir |-> Root, name |-> <<"pkg">>],
    [dir |-> Pkg, name |-> <<"__init__", ".py">>],
    [dir |-> Pkg, name |-> <<"helper", ".py">>] >>

Absent == [kind |-> "absent", attr |-> <<>>]
Text == [kind |-> "text", attr |-> <<>>]
Module(attr) == [kind |-> "ok", attr |-> attr]
Fails(exc) == [kind |-> exc, attr |-> <<>>]

LoadFailures == {"ImportError", "SyntaxError", "Exception", "OSError"}

isdir(path) == path \in Dirs

isfile(path) == path \in DOMAIN fs /\ fs[path].kind # "absent"

exists(path) == isdir(path) \/ isfile(path)

listdir(directory) ==
    LET here == SelectSeq(Entries, LAMBDA e :
                    e.dir = directory /\ exists(join(e.dir, e.name)))
    IN  [i \in 1..Len(here) |-> here[i].name]

\* os.walk(directory, followlinks=True), top-down
RECURSIVE os_walk(_)
os_walk(directory) ==
    LET names == listdir(directory)
        files == SelectSeq(names, LAMBDA n : ~isdir(join(directory, n)))
        fldrs == SelectSeq(names, LAMBDA n : isdir(join(directory, n)))
    IN  <<[root |-> directory, files |-> files]>>
        \o Flatten([i \in 1..Len(fldrs) |-> os_walk(join(directory, fldrs[i]))])

(***************************************************************************)
(* Analyzer: the single-module analyzer of plugins.py.                     *)
(***************************************************************************)
None == [tag |-> "None"]
Raise(exc) == [tag |-> "raise", exc |-> exc]

Analyzer_loadModule(filepath) ==
    IF endswith(filepath, ".py")
    THEN LET content == fs[filepath]
         IN  IF content.kind = "ok"
             THEN [tag |-> "module", attr |-> content.attr]
             ELSE IF content.kind = "ImportError"
             THEN None
             ELSE Raise(content.kind)
    ELSE None

Analyzer_isValidPlugin(filename) ==
    LET themodule == Analyzer_loadModule(filename)
    IN  IF themodule.tag = "raise" THEN "raise"
        ELSE IF themodule.tag = "module"
        THEN (IF themodule.attr # <<>> THEN "True" ELSE "False")
        ELSE "False"

Analyzer_getInfosDictFromPlugin(dirpath, filename) ==
    LET module_path == join(dirpath, filename)
        themodule == Analyzer_loadModule(module_path)
    IN  IF themodule.tag = "raise" THEN themodule
        ELSE [tag |-> "dict",
              name |-> IF themodule.tag = "module" /\ themodule.attr # <<>>
                       THEN themodule.attr[1] ELSE "",
              path |-> module_path]

(***************************************************************************)
(* The analyzers a Locator can be given: the single-module analyzer and    *)
(* analyzers supplied by the caller, which recognise a file by its suffix  *)
(* and declare the module path next to it ("stem"), declare a path that    *)
(* does not exist ("dangling") or extract nothing ("fail").                *)
(***************************************************************************)
ModuleAnalyzer == [suffix |-> ".py", mode |-> "module"]
InfoFileAnalyzer == [suffix |-> ".info", mode |-> "stem"]

AnalyzerSet ==
    {ModuleAnalyzer, InfoFileAnalyzer}
    \cup [suffix : {".py"}, mode : {"stem", "dangling", "fail"}]

DefaultAnalyzers == <<ModuleAnalyzer, InfoFileAnalyzer>>

isValidPlugin(analyzer, path) ==
    IF analyzer.mode = "module" THEN Analyzer_isValidPlugin(path)
    ELSE IF endswith(path, analyzer.suffix) THEN "True" ELSE "False"

getInfosDictFromPlugin(analyzer, dirpath, filename) ==
    LET path == join(dirpath, filename)
    IN  CASE analyzer.mode = "module" ->
                Analyzer_getInfosDictFromPlugin(dirpath, filename)
          [] analyzer.mode = "stem" ->
                [tag |-> "dict", name |-> "Described",
                 path |-> StripSuffix(path)]
          [] analyzer.mode = "dangling" ->
                [tag |-> "dict", name |-> "Dangling",
                 path |-> Append(StripSuffix(path), "gone")]
          [] OTHER -> None

(***************************************************************************)
(* Locator.locatePlugins.                                                  *)
(***************************************************************************)
\* PluginFileLocator._getInfoForPluginFromAnalyzer: a PluginInfo(name, path)
\* of the analyzer's dictionary, None when the analyzer returns no dictionary
getInfoForPluginFromAnalyzer(analyzer, dirpath, filename) ==
    LET infos == getInfosDictFromPlugin(analyzer, dirpath, filename)
    IN  IF infos.tag = "dict"
        THEN [tag |-> "info", name |-> infos.name, path |-> infos.path]
        ELSE infos

\* the dictionary of the previous passes, kept
StaleDiscovered == discovered_plugins

\* _discovered = {}
FreshDiscovered == EmptyDict

\* the membership test, left out
NeverDiscovered(sidecar_path, _discovered) == FALSE

\* sidecar_path in _discovered
AlreadyDiscovered(sidecar_path, _discovered) == sidecar_path \in DOMAIN _discovered

\* "continue" where the loop has "break"
AfterContinue(i) == i + 1

\* the analyzer the loop turns to after "break": none
AfterBreak(i) == Len(analyzers) + 1

\* the entry point alone
PackageInitOnly(candidate_path) == {join(candidate_path, <<"__init__", ".py">>)}

\* the files of a package: every ".py" entry of os.listdir(candidate_path)
PackageFiles(candidate_path) ==
    {join(candidate_path, _file) :
        _file \in {f \in SeqRange(listdir(candidate_path)) : endswith(f, ".py")}}

\* the path to execute and the files that belong to the plugin
ResolvePlugin(candidate_path, _discovered) ==
    IF isdir(candidate_path)
    THEN LET plugin_path == join(candidate_path, <<"__init__">>)
             files == PackageFiles(candidate_path)
         IN  [tag |-> "package", plugin_path |-> plugin_path, files |-> files,
              discovered |-> [p \in files |-> plugin_path] @@ _discovered]
    ELSE IF (endswith(candidate_path, ".py") /\ isfile(candidate_path))
            \/ isfile(PlusPy(candidate_path))
    THEN LET plugin_path == candidate_path
         IN  [tag |-> "module", plugin_path |-> plugin_path, files |-> {},
              discovered |->
                (plugin_path :> (IF endswith(plugin_path, ".py")
                                 THEN StripSuffix(plugin_path)
                                 ELSE plugin_path)) @@ _discovered]
    ELSE [tag |-> "break"]

\* the walk that ignores self.recursive
WalkAlways(directory) == os_walk(directory)

\* walk_iter of one directory
WalkIter(directory) ==
    IF recursive
    THEN os_walk(directory)
    ELSE <<[root |-> directory, files |-> listdir(directory)]>>

\* the (root, filename) pairs of one walk, in order
WalkFiles(walk_iter) ==
    Flatten([i \in 1..Len(walk_iter) |->
        [j \in 1..Len(walk_iter[i].files) |->
            [root |-> walk_iter[i].root, filename |-> walk_iter[i].files[j]]]])

\* every (root, filename) the pass visits: places that are no directory are skipped
Visits ==
    Flatten([k \in 1..Len(plugins_places) |->
        IF isdir(plugins_places[k])
        THEN WalkFiles(WalkIter(plugins_places[k]))
        ELSE <<>>])

\* the visits, each with its position in the walk (history)
Numbered(visits) ==
    [k \in 1..Len(visits) |->
        [root |-> visits[k].root, filename |-> visits[k].filename, visit |-> k]]

Call(visit, path, i, op, result) ==
    [visit |-> visit, path |-> path, analyzer |-> i, op |-> op, result |-> result]

\* for analyzer in self._analyzers: ..., from the i-th analyzer on
RECURSIVE AnalyzerLoop(_, _, _, _)
AnalyzerLoop(i, root, filename, st) ==
    LET sidecar_path == join(root, filename)
    IN  IF i > Len(analyzers) THEN st
        ELSE
        LET analyzer == analyzers[i]
            valid == isValidPlugin(analyzer, sidecar_path)
            st1 == [st EXCEPT !.log = Append(@, Call(st.visit, sidecar_path, i, "isValidPlugin", valid))]
        IN  IF valid = "raise" THEN [st1 EXCEPT !.raised = TRUE]
            ELSE IF valid = "False" THEN AnalyzerLoop(i + 1, root, filename, st1)
            ELSE IF AlreadyDiscovered(sidecar_path, st1.discovered)
            THEN AnalyzerLoop(i + 1, root, filename, st1)
            ELSE
            LET plugin_info == getInfoForPluginFromAnalyzer(analyzer, root, filename)
                st2 == [st1 EXCEPT !.log =
                        Append(@, Call(st.visit, sidecar_path, i, "getInfo", plugin_info.tag))]
            IN  IF plugin_info.tag = "raise" THEN [st2 EXCEPT !.raised = TRUE]
                ELSE IF plugin_info.tag = "None"
                THEN AnalyzerLoop(AfterBreak(i), root, filename, st2)
                ELSE
                LET res == ResolvePlugin(plugin_info.path, st2.discovered)
                IN  IF res.tag = "break"
                    THEN AnalyzerLoop(AfterBreak(i), root, filename, st2)
                    ELSE AnalyzerLoop(i + 1, root, filename,
                            [st2 EXCEPT
                                !.candidates = Append(@,
                                    [sidecar_path |-> sidecar_path,
                                     plugin_path |-> res.plugin_path,
                                     plugin_info |-> [name |-> plugin_info.name,
                                                      path |-> plugin_info.path]]),
                                !.discovered = (sidecar_path :> res.plugin_path)
                                                @@ res.discovered,
                                !.claimed = Append(@, {sidecar_path} \cup res.files)])

Locals == [candidates |-> candidates, discovered |-> discovered,
           claimed |-> claimed, log |-> log, visit |-> Head(todo).visit,
           raised |-> FALSE]

AfterVisit == AnalyzerLoop(1, Head(todo).root, Head(todo).filename, Locals)

config == <<fs, plugins_places, recursive, analyzers>>

\* locatePlugins is called: the locals are created
LocatePlugins ==
    /\ pc = "idle"
    /\ Len(returned) < MaxPasses
    /\ pc' = "walk"
    /\ todo' = Numbered(Visits)
    /\ candidates' = <<>>
    /\ discovered' = FreshDiscovered
    /\ claimed' = <<>>
    /\ log' = <<>>
    /\ UNCHANGED <<config, discovered_plugins, returned>>

\* one file of the walk goes through the analyzers
VisitFile ==
    /\ pc = "walk"
    /\ todo # <<>>
    /\ LET after == AfterVisit
       IN  /\ ~after.raised
           /\ candidates' = after.candidates
           /\ discovered' = after.discovered
           /\ claimed' = after.claimed
           /\ log' = after.log
    /\ todo' = Tail(todo)
    /\ UNCHANGED <<config, discovered_plugins, pc, returned>>

\* an analyzer raises on the file: the exception leaves locatePlugins
VisitFileRaises ==
    /\ pc = "walk"
    /\ todo # <<>>
    /\ LET after == AfterVisit
       IN  /\ after.raised
           /\ candidates' = after.candidates
           /\ discovered' = after.discovered
           /\ claimed' = after.claimed
           /\ log' = after.log
    /\ pc' = "idle"
    /\ returned' = Append(returned, [status |-> "raised", candidates |-> <<>>, count |-> 0])
    /\ UNCHANGED <<config, discovered_plugins, todo>>

\* self._discovered_plugins.update(_discovered); return _candidates, len(_candidates)
Return ==
    /\ pc = "walk"
    /\ todo = <<>>
    /\ pc' = "idle"
    /\ discovered_plugins' = discovered @@ discovered_plugins
    /\ returned' = Append(returned, [status |-> "ok", candidates |-> candidates,
                                     count |-> Len(candidates)])
    /\ UNCHANGED <<config, todo, candidates, discovered, claimed, log>>

Next == LocatePlugins \/ VisitFile \/ VisitFileRaises \/ Return

(***************************************************************************)
(* Initial states: a Locator over some file system.                        *)
(***************************************************************************)
\* the sequences without repetition over S, of length at most n
RECURSIVE SeqsUpTo(_, _)
SeqsUpTo(S, n) ==
    IF n = 0 THEN {<<>>}
    ELSE LET shorter == SeqsUpTo(S, n - 1)
         IN  shorter \cup {Append(s, x) : <<s, x>> \in
                              {sx \in shorter \X S : sx[2] \notin SeqRange(sx[1])}}

Places == {Root, Pkg, Missing}

PluginAContents == {Module(<<"Alpha">>), Module(<<"">>), Fails("SyntaxError")}
PkgInitContents == {Module(<<"Beta">>)}
PkgHelperContents == {Module(<<"Alpha">>), Module(<<>>)}

FileSystem(a, i, h, s) ==
    (PluginA :> a) @@ (PkgInit :> i) @@ (PkgHelper :> h) @@ (Sidecar :> s)
    @@ (Readme :> Text)

FileSystems ==
    {FileSystem(a, i, h, s) : a \in PluginAContents, i \in PkgInitContents,
                              h \in PkgHelperContents, s \in {Text, Absent}}

\* Locator.__init__ and the setters, before any pass
InitLocator ==
    /\ recursive \in BOOLEAN
    /\ discovered_plugins = EmptyDict
    /\ pc = "idle"
    /\ todo = <<>>
    /\ candidates = <<>>
    /\ discovered = EmptyDict
    /\ claimed = <<>>
    /\ log = <<>>
    /\ returned = <<>>

Init ==
    /\ fs \in FileSystems
    /\ plugins_places \in SeqsUpTo(Places, MaxPlaces) \ {<<>>}
    /\ analyzers \in SeqsUpTo(AnalyzerSet, MaxAnalyzers) \ {<<>>}
    /\ InitLocator

Spec == Init /\ [][Next]_vars

\* the default Locator over one place whose plugin file may fail to load in
\* every way
LoadContents ==
    {Module(<<"Alpha">>), Module(<<"">>), Module(<<>>)} \cup {Fails(exc) : exc \in LoadFailures}

InitLoad ==
    /\ fs \in {FileSystem(a, i, h, s) : a \in LoadContents, i \in {Module(<<"Beta">>), Module(<<>>)},
                                        h \in PkgHelperContents, s \in {Text, Absent}}
    /\ plugins_places = <<Root>>
    /\ analyzers = DefaultAnalyzers
    /\ InitLocator

SpecLoad == InitLoad /\ [][Next]_vars

(***************************************************************************)
(* Properties.                                                             *)
(***************************************************************************)
Indices(s) == 1..Len(s)

PathOf(e) == join(e.root, e.filename)

\* a pass has just returned normally
PassReturned ==
    pc = "idle" /\ returned # <<>> /\ returned[Len(returned)].status = "ok"

\* the i-th analyzer is the first to recognise the path
FirstRecognizer(path, i) ==
    /\ isValidPlugin(analyzers[i], path) = "True"
    /\ \A k \in 1..(i - 1) : isValidPlugin(analyzers[k], path) = "False"

Extraction(i, e) == getInfoForPluginFromAnalyzer(analyzers[i], e.root, e.filename)

Resolves(path) == ResolvePlugin(path, EmptyDict).tag # "break"

\* the i-th analyzer recognises the file first, a later one recognises it
\* too, and both extract its info
Contested(e, i) ==
    /\ FirstRecognizer(PathOf(e), i)
    /\ Extraction(i, e).tag = "info"
    /\ \E j \in (i + 1)..Len(analyzers) :
            /\ isValidPlugin(analyzers[j], PathOf(e)) = "True"
            /\ Extraction(j, e).tag = "info"

InfoOf(i, e) == [name |-> Extraction(i, e).name, path |-> Extraction(i, e).path]

CandidatesOf(path, cs) == {k \in Indices(cs) : cs[k].sidecar_path = path}

\* the source files directly inside a directory
SourceFilesIn(dir) ==
    {p \in DOMAIN fs : isfile(p) /\ endswith(p, ".py") /\ SubSeq(p, 1, Len(p) - 2) = dir}

ParentOf(path) ==
    IF isdir(path) THEN SubSeq(path, 1, Len(path) - 1)
    ELSE SubSeq(path, 1, Len(path) - 2)

\* C1: isValidPlugin of the single-module analyzer answers false for every
\* load failure of a ".py" file (import error, syntax error, exception of the
\* top-level code, unreadable file), and no pass of locatePlugins ends with
\* an exception.
C1_LoadFailureIsNotAPlugin ==
    /\ \A m \in Indices(log) :
            (/\ log[m].op = "isValidPlugin"
             /\ analyzers[log[m].analyzer] = ModuleAnalyzer
             /\ endswith(log[m].path, ".py")
             /\ fs[log[m].path].kind \in LoadFailures)
            => log[m].result = "False"
    /\ \A r \in Indices(returned) : returned[r].status # "raised"

\* C2 as stated: after a pass that returned, every visited file that two
\* analyzers recognise and extract has exactly one candidate, with the info
\* of the first of them.
C2_FirstAnalyzerAlwaysWins ==
    PassReturned =>
        \A e \in SeqRange(Visits) : \A i \in Indices(analyzers) :
            Contested(e, i) =>
                \E k \in Indices(candidates) :
                    /\ CandidatesOf(PathOf(e), candidates) = {k}
                    /\ candidates[k].plugin_info = InfoOf(i, e)

C2_IdentityUnique ==
    \A k, l \in Indices(candidates) :
        k # l => candidates[k].sidecar_path # candidates[l].sidecar_path

C2_VisitAppendsFirst ==
    (pc = "walk" /\ todo # <<>>) =>
        \A i \in Indices(analyzers) :
            (/\ Contested(Head(todo), i)
             /\ PathOf(Head(todo)) \notin DOMAIN discovered
             /\ Resolves(Extraction(i, Head(todo)).path))
            => /\ Len(candidates') = Len(candidates) + 1
               /\ SubSeq(candidates', 1, Len(candidates)) = candidates
               /\ candidates'[Len(candidates')].sidecar_path = PathOf(Head(todo))
               /\ candidates'[Len(candidates')].plugin_info = InfoOf(i, Head(todo))

\* C2 amended: when the pass visits a file that is not in discovered yet,
\* that two analyzers recognise and extract, and the path declared by the
\* first of them resolves, the visit appends exactly one candidate, for that
\* file and with the first analyzer's info; no two candidates of a pass have
\* the same identity path.
C2_FirstResolvingAnalyzerWins ==
    []C2_IdentityUnique /\ [][C2_VisitAppendsFirst]_vars

\* C2 witness: a candidate of a file two analyzers recognise and extract
C2_Witness ==
    \E k \in Indices(candidates) : \E e \in SeqRange(Visits) :
        /\ PathOf(e) = candidates[k].sidecar_path
        /\ \E i \in Indices(analyzers) :
                Contested(e, i) /\ candidates[k].plugin_info = InfoOf(i, e)
        /\ PassReturned

\* C3: the path sets claimed by the candidates of a pass (identity path and
\* registered package files) are pairwise disjoint.
C3_ClaimsDisjoint ==
    \A k, l \in Indices(claimed) : k # l => claimed[k] \cap claimed[l] = {}

\* C4 as stated: a pass that reaches the directory pkg, whose __init__.py
\* declares a plugin name, returns exactly one candidate for it and leaves
\* every source file of the directory a key of discovered.
C4_PackageDirectoryOneCandidate ==
    (/\ PassReturned
     /\ fs[PkgInit].attr # <<>>
     /\ \E e \in SeqRange(Visits) : PathOf(e) = PkgInit)
    => /\ Cardinality({k \in Indices(candidates) :
                \/ candidates[k].sidecar_path \in SourceFilesIn(Pkg)
                \/ candidates[k].plugin_info.path = Pkg}) = 1
       /\ SourceFilesIn(Pkg) \subseteq DOMAIN discovered

\* C4 amended: when the path an analyzer declares for a file is a directory,
\* the pass has exactly one candidate for that file, its executable path is
\* the directory's __init__, every source file directly inside the directory
\* is registered with the candidate and a key of discovered, and no file of
\* the directory is claimed by a later candidate.
C4_DeclaredDirectoryIsOnePackage ==
    /\ Len(claimed) = Len(candidates)
    /\ \A k \in Indices(candidates) :
        LET c == candidates[k]
            dir == c.plugin_info.path
        IN  isdir(dir) =>
                /\ c.plugin_path = join(dir, <<"__init__">>)
                /\ CandidatesOf(c.sidecar_path, candidates) = {k}
                /\ claimed[k] = {c.sidecar_path} \cup SourceFilesIn(dir)
                /\ SourceFilesIn(dir) \subseteq DOMAIN discovered
                /\ \A l \in (k + 1)..Len(candidates) :
                        candidates[l].sidecar_path \notin SourceFilesIn(dir)

\* C4 witness: a returned pass with a candidate whose declared path is a
\* directory of two source files
C4_Witness ==
    /\ PassReturned
    /\ \E k \in Indices(candidates) :
            /\ isdir(candidates[k].plugin_info.path)
            /\ Cardinality(SourceFilesIn(candidates[k].plugin_info.path)) = 2

\* C5: every candidate locatePlugins returns has a non-empty name.
C5_NamesNonEmpty ==
    \A r \in Indices(returned) : \A k \in Indices(returned[r].candidates) :
        returned[r].candidates[k].plugin_info.name # ""

\* C6: every pass of the same Locator over the unchanged file system ends the
\* same way: the same status, the same count and the same set of candidates,
\* whatever the earlier passes stored in _discovered_plugins.
C6_Idempotent ==
    \A r, q \in Indices(returned) :
        /\ returned[r].status = returned[q].status
        /\ returned[r].count = returned[q].count
        /\ SeqRange(returned[r].candidates) = SeqRange(returned[q].candidates)

\* C6 witness: a second pass has returned candidates, after the first one
\* stored its discovered paths on the locator
C6_Witness ==
    /\ Len(returned) >= 2
    /\ returned[2].status = "ok"
    /\ returned[2].count >= 2
    /\ DOMAIN discovered_plugins # {}

\* C7: no candidate returned for a single-file plugin has an executable path
\* that ends in ".py".
C7_ExecutablePathStripped ==
    \A r \in Indices(returned) : \A k \in Indices(returned[r].candidates) :
        LET c == returned[r].candidates[k]
        IN  ~isdir(c.plugin_info.path) => ~endswith(c.plugin_path, ".py")

\* a path some other candidate of the pass has registered
ClaimedByOther(path) ==
    \E k \in Indices(candidates) :
        candidates[k].sidecar_path # path /\ path \in claimed[k]

\* the file is recognised, its first recogniser extracts an info whose path
\* resolves, and no other candidate has claimed it
Qualifies(e) ==
    /\ ~ClaimedByOther(PathOf(e))
    /\ \E i \in Indices(analyzers) :
            /\ FirstRecognizer(PathOf(e), i)
            /\ Extraction(i, e).tag = "info"
            /\ Resolves(Extraction(i, e).path)

\* C8: when a call of locatePlugins is over, every file of the configured
\* places that is recognised, unclaimed, extracted and resolved is the
\* identity path of a candidate the call returned, whatever the names
\* declared by other files.
C8_EveryPluginFileYieldsCandidate ==
    (pc = "idle" /\ returned # <<>>) =>
        \A e \in SeqRange(Visits) :
            Qualifies(e) =>
                CandidatesOf(PathOf(e), returned[Len(returned)].candidates) # {}

\* C9 as stated: once an analyzer has extracted (or failed to extract) the
\* info of a file, no later analyzer is called on that file, and a failed
\* extraction leaves no candidate.
C9_ClaimEndsConsultation ==
    \A m \in Indices(log) :
        log[m].op = "getInfo" =>
            /\ \A n \in (m + 1)..Len(log) :
                    log[n].path = log[m].path => log[n].analyzer <= log[m].analyzer
            /\ log[m].result = "None" => CandidatesOf(log[m].path, candidates) = {}

\* C9 amended: in the visit of a file, after an analyzer's extraction fails
\* or the path it declares does not resolve, no candidate is appended and no
\* further analyzer is called; after a candidate is appended, the later
\* analyzers are still asked isValidPlugin but none extracts.  In the whole
\* pass one analyzer at most extracts a given file's info and the file has
\* one candidate at most.
C9_ClaimEndsExtraction ==
    \A m \in Indices(log) :
        log[m].op = "getInfo" =>
            /\ log[m].result = "None" => CandidatesOf(log[m].path, candidates) = {}
            /\ Cardinality(CandidatesOf(log[m].path, candidates)) <= 1
            /\ \A n \in (m + 1)..Len(log) :
                    /\ log[n].visit = log[m].visit =>
                            /\ CandidatesOf(log[m].path, candidates) # {}
                            /\ log[n].op = "isValidPlugin"
                    /\ (log[n].path = log[m].path /\ log[n].op = "getInfo") =>
                            /\ log[n].analyzer = log[m].analyzer
                            /\ CandidatesOf(log[m].path, candidates) = {}

\* C9 witness: an extraction failed for a file that the next analyzer
\* recognises
C9_Witness ==
    \E m \in Indices(log) :
        /\ log[m].op = "getInfo"
        /\ log[m].result = "None"
        /\ log[m].analyzer < Len(analyzers)
        /\ isValidPlugin(analyzers[log[m].analyzer + 1], log[m].path) = "True"
        /\ PassReturned

ScenarioFS == FileSystem(Module(<<"Alpha">>), Module(<<"Beta">>), Module(<<>>), Absent)

InScenario ==
    /\ fs = ScenarioFS
    /\ plugins_places = <<Root>>
    /\ analyzers \in {<<ModuleAnalyzer>>, DefaultAnalyzers}

NamesOf(cs) == {cs[k].plugin_info.name : k \in Indices(cs)}

\* C10: a non-recursive pass calls analyzers only on entries of the
\* configured directories' own listings, and only those become candidates;
\* over the root of pluginA.py ("Alpha"), pkg/__init__.py ("Beta"),
\* pkg/helper.py (no name) and readme.txt, a non-recursive pass returns the
\* one candidate "Alpha" and a recursive pass the two candidates "Alpha" and
\* "Beta", pkg/helper.py never being an identity path.
C10_RecursiveFlagDecidesDepth ==
    /\ ~recursive =>
            /\ \A m \in Indices(log) :
                    ParentOf(log[m].path) \in SeqRange(plugins_places)
            /\ \A k \in Indices(candidates) :
                    ParentOf(candidates[k].sidecar_path) \in SeqRange(plugins_places)
    /\ InScenario =>
            \A r \in Indices(returned) :
                /\ returned[r].status = "ok"
                /\ CandidatesOf(PkgHelper, returned[r].candidates) = {}
                /\ IF recursive
                   THEN /\ returned[r].count = 2
                        /\ NamesOf(returned[r].candidates) = {"Alpha", "Beta"}
                   ELSE /\ returned[r].count = 1
                        /\ NamesOf(returned[r].candidates) = {"Alpha"}
                        /\ CandidatesOf(PluginA, returned[r].candidates) = {1}

\* C10 witness: a non-recursive pass over the scenario has returned
C10_Witness ==
    InScenario /\ ~recursive /\ PassReturned /\ Len(log) > 0

====
